---- MODULE Spec2Model ----
(***************************************************************************)
(* Model of the two FIPS start-up utilities of wolfssl-valkey:             *)
(*   fips-startup-check.c  (the start-up validator, prog = "startup")      *)
(*   test-fips.c           (the installation smoke test, prog = "test")    *)
(* Each is a single main() that calls into the wolfCrypt provider.  The    *)
(* provider is a black box: every call returns a status drawn from Codes,  *)
(* wc_Sha256Final writes a digest drawn from Digests, and any call may     *)
(* never return (Hang).  Standard output goes through the C stdio buffer:  *)
(* line buffered on a terminal, fully buffered on a pipe or file.          *)
(***************************************************************************)
EXTENDS Integers, Sequences, FiniteSets

(* ---- bounds of the model ---- *)
MaxCode == 2
MaxVersion == 7
MaxDelta == 1

(* ---- program constants ---- *)
WC_SHA256_DIGEST_SIZE == 32
MinFipsVersion == 5
\* the length passed to wc_Sha256Update; sizeof "abc" would be 4
TestDataLen_WithNul == 3 + 1

TestDataLen == 3

VARIABLES
    prog,             \* which utility this process is
    haveFips,         \* HAVE_FIPS is defined
    haveFipsVersion,  \* HAVE_FIPS_VERSION is defined
    fipsVersion,      \* value of HAVE_FIPS_VERSION
    lineBuffered,     \* stdout refers to a terminal
    pc,               \* position in main
    hung,             \* a provider call has not returned and never will
    ret,              \* int ret
    hash,             \* byte hash[WC_SHA256_DIGEST_SIZE]
    i,                \* loop index of the comparison
    match,            \* int match
    stdoutBuf,        \* lines written by printf, still in the stdio buffer
    log,              \* lines that left the process (visible to the operator)
    exitCode,         \* return value of main, meaningful once pc = "exited"
    calls,            \* provider calls that returned, in order
    shaHeld,          \* sha holds provider resources that only wc_Sha256Free releases
    second,           \* this process is the second run of the same binary
    prev              \* what the first run did and what the provider answered

vars == <<prog, haveFips, haveFipsVersion, fipsVersion, lineBuffered, pc, hung,
          ret, hash, i, match, stdoutBuf, log, exitCode, calls, shaHeld, second, prev>>

rerun == <<second, prev>>

build == <<prog, haveFips, haveFipsVersion, fipsVersion, lineBuffered>>

(* ---- data ---- *)
Codes == (0 - MaxCode)..MaxCode

expected ==
    << 186, 120, 22, 191, 143, 1, 207, 234,
       65, 65, 64, 222, 93, 174, 34, 35,
       176, 3, 97, 163, 150, 23, 122, 156,
       180, 16, 255, 97, 242, 0, 21, 173 >>

\* "abc" as it lies in memory, with its terminating NUL
testData == << 97, 98, 99, 0 >>

ZeroHash == [p \in 1..WC_SHA256_DIGEST_SIZE |-> 0]

Flip(h, p, d) == [h EXCEPT ![p] = (h[p] + d) % 256]

\* digests wc_Sha256Final may write: the right one, every digest wrong in
\* exactly one position, one wrong in the first and last position, one wrong
\* everywhere
Digests ==
    {expected}
    \cup { Flip(expected, p, d) : p \in 1..WC_SHA256_DIGEST_SIZE, d \in 1..MaxDelta }
    \cup { Flip(Flip(expected, 1, 1), WC_SHA256_DIGEST_SIZE, 1), ZeroHash }

\* contents of the uninitialised stack buffer
UninitHashes == {ZeroHash, expected}

(* ---- stdio ---- *)
Line(t) == [txt |-> t, arg |-> << >>]

LineD(t, n) == [txt |-> t, arg |-> <<n>>]

LineHex(t, h) == [txt |-> t, arg |-> h]

\* printf of whole lines.  Neither main calls fflush or setvbuf, so stdout
\* keeps its default mode: line buffered on a terminal (flushed at each
\* newline), fully buffered on a pipe or file (the text stays in the buffer;
\* the whole report is far below BUFSIZ) until exit flushes it
Printf(ls) ==
    IF lineBuffered
    THEN log' = log \o stdoutBuf \o ls /\ stdoutBuf' = << >>
    ELSE stdoutBuf' = stdoutBuf \o ls /\ log' = log

\* printf followed by return from main: exit flushes stdout
PrintfReturn(ls, code) ==
    /\ log' = log \o stdoutBuf \o ls
    /\ stdoutBuf' = << >>
    /\ pc' = "exited"
    /\ exitCode' = code

Goto(p) == pc' = p /\ UNCHANGED exitCode

At(p, l) == ~hung /\ prog = p /\ pc = l

Call(f, r, a) == [fn |-> f, ret |-> r, arg |-> a]

Texts(s) == { s[k].txt : k \in 1..Len(s) }

Written == log \o stdoutBuf

Called(f) == \E k \in 1..Len(calls) : calls[k].fn = f

\* the record of a run: its exit code, its report, the provider calls it made
\* with their results, and the output buffer as the provider left it
NoRun == [exitCode |-> 0, report |-> << >>, calls |-> << >>, hash |-> ZeroHash]

\* an unchanged provider answers the second run as it answered the first:
\* the n-th call, if it is the call the first run made n-th, returns the same
\* status (and wc_Sha256Final leaves the same bytes in the buffer)
Replaying(f) ==
    /\ second
    /\ Len(calls) < Len(prev.calls)
    /\ prev.calls[Len(calls) + 1].fn = f

\* whether a provider build allocates in wc_InitSha256 is a property of the
\* build; a failed init holds nothing
ContextAfterInit(c) == IF c = 0 THEN BOOLEAN ELSE {FALSE}

Answers(f) ==
    IF Replaying(f) THEN { prev.calls[Len(calls) + 1].ret } ELSE Codes

\* the provider writes the output buffer when it succeeds; when it fails it
\* may have left it alone or written something, right or wrong, into it
FinalOutputs(c) ==
    IF Replaying("wc_Sha256Final") THEN { prev.hash }
    ELSE IF c = 0 THEN Digests ELSE {hash, expected, ZeroHash}

(* ---- initial state ---- *)
Init ==
    /\ prog \in {"startup", "test"}
    /\ haveFips \in BOOLEAN
    /\ haveFipsVersion \in BOOLEAN
    /\ fipsVersion \in 0..MaxVersion
    /\ (~haveFipsVersion => fipsVersion = 0)
    /\ lineBuffered \in BOOLEAN
    /\ pc = "start"
    /\ hung = FALSE
    /\ ret \in Codes
    /\ hash \in UninitHashes
    /\ i = 0
    /\ match = 1
    /\ stdoutBuf = << >>
    /\ log = << >>
    /\ exitCode = 0
    /\ calls = << >>
    /\ shaHeld = FALSE
    /\ second = FALSE
    /\ prev = NoRun

(* ======================= fips-startup-check.c ======================= *)

\* #ifdef HAVE_FIPS
FipsEnabled_WrongMacro == haveFips \/ haveFipsVersion

FipsEnabled == haveFips

\* #ifdef HAVE_FIPS_VERSION (tested without #ifdef, an undefined macro is 0
\* in a preprocessor comparison and the version test is made)
VersionAvailable_UndefinedIsZero == TRUE

VersionAvailable == haveFipsVersion

\* if (HAVE_FIPS_VERSION < 5)
VersionTooLow_OffByOne(v) == v <= MinFipsVersion

VersionTooLow(v) == v < MinFipsVersion

\* if (ret != 0)
Failed_NegativeOnly(r) == r < 0

Failed(r) == r # 0

\* if (!match)
NoMatch_NegativeOnly(m) == m < 0

NoMatch(m) == m = 0

StartupCheck_Banner ==
    /\ At("startup", "start")
    /\ Printf(<< Line("========================================"),
                 Line("FIPS Startup Validation"),
                 Line("========================================") >>)
    /\ Goto("check1")
    /\ UNCHANGED <<build, rerun, shaHeld, hung, ret, hash, i, match, calls>>

StartupCheck_Check1 ==
    /\ At("startup", "check1")
    /\ IF ~FipsEnabled
       THEN PrintfReturn(<< Line("[1/3] Checking FIPS compile-time configuration..."),
                            Line("ERROR: FIPS mode is DISABLED"),
                            Line("This binary was not compiled with FIPS support") >>, 1)
       ELSE IF VersionAvailable
       THEN IF VersionTooLow(fipsVersion)
            THEN PrintfReturn(<< Line("[1/3] Checking FIPS compile-time configuration..."),
                                 Line("FIPS mode: ENABLED"),
                                 LineD("FIPS version: %d", fipsVersion),
                                 Line("ERROR: FIPS version must be 5 or higher") >>, 1)
            ELSE /\ Printf(<< Line("[1/3] Checking FIPS compile-time configuration..."),
                              Line("FIPS mode: ENABLED"),
                              LineD("FIPS version: %d", fipsVersion) >>)
                 /\ Goto("check2")
       ELSE /\ Printf(<< Line("[1/3] Checking FIPS compile-time configuration..."),
                         Line("FIPS mode: ENABLED"),
                         Line("FIPS version macro not available") >>)
            /\ Goto("check2")
    /\ UNCHANGED <<build, rerun, shaHeld, hung, ret, hash, i, match, calls>>

StartupCheck_Check2Begin ==
    /\ At("startup", "check2")
    /\ Printf(<< Line("[2/3] Running FIPS Known Answer Tests (CAST)...") >>)
    /\ Goto("setseed")
    /\ UNCHANGED <<build, rerun, shaHeld, hung, ret, hash, i, match, calls>>

StartupCheck_SetSeed_Missing ==
    /\ At("startup", "setseed")
    /\ Goto("cast")
    /\ UNCHANGED <<build, rerun, shaHeld, hung, ret, hash, i, match, stdoutBuf, log, calls>>

StartupCheck_SetSeed ==
    /\ At("startup", "setseed")
    /\ calls' = Append(calls, Call("wc_SetSeed_Cb", 0, << >>))
    /\ Goto("cast")
    /\ UNCHANGED <<build, rerun, shaHeld, hung, ret, hash, i, match, stdoutBuf, log>>

\* wc_RunAllCast_fips() called without "ret =": the test reads a stale ret
StartupCheck_RunAllCast_ResultDropped ==
    /\ At("startup", "cast")
    /\ \E c \in Answers("wc_RunAllCast_fips") :
         /\ ret' = ret
         /\ calls' = Append(calls, Call("wc_RunAllCast_fips", c, << >>))
         /\ IF Failed(ret')
            THEN PrintfReturn(<< LineD("FIPS CAST FAILED (error code: %d)", ret'),
                                 Line("FIPS cryptographic module validation failed") >>, 1)
            ELSE Printf(<< Line("FIPS CAST: PASSED") >>) /\ Goto("check3")
    /\ UNCHANGED <<build, rerun, shaHeld, hung, hash, i, match>>

StartupCheck_RunAllCast ==
    /\ At("startup", "cast")
    /\ \E c \in Answers("wc_RunAllCast_fips") :
         /\ ret' = c
         /\ calls' = Append(calls, Call("wc_RunAllCast_fips", c, << >>))
         /\ IF Failed(ret')
            THEN PrintfReturn(<< LineD("FIPS CAST FAILED (error code: %d)", ret'),
                                 Line("FIPS cryptographic module validation failed") >>, 1)
            ELSE Printf(<< Line("FIPS CAST: PASSED") >>) /\ Goto("check3")
    /\ UNCHANGED <<build, rerun, shaHeld, hung, hash, i, match>>

StartupCheck_Check3Begin ==
    /\ At("startup", "check3")
    /\ Printf(<< Line("[3/3] Validating SHA-256 cryptographic operation...") >>)
    /\ Goto("sha_init")
    /\ UNCHANGED <<build, rerun, shaHeld, hung, ret, hash, i, match, calls>>

StartupCheck_InitSha256 ==
    /\ At("startup", "sha_init")
    /\ \E c \in Answers("wc_InitSha256") :
         /\ ret' = c
         /\ calls' = Append(calls, Call("wc_InitSha256", c, << >>))
         /\ shaHeld' \in ContextAfterInit(c)
         /\ IF Failed(ret')
            THEN PrintfReturn(<< LineD("SHA-256 initialization failed (error code: %d)", ret') >>, 1)
            ELSE Goto("sha_update") /\ UNCHANGED <<stdoutBuf, log>>
    /\ UNCHANGED <<build, rerun, hung, hash, i, match>>

\* a failed update answered by starting the digest over instead of return 1
StartupCheck_Sha256Update_Retry ==
    /\ At("startup", "sha_update")
    /\ \E c \in Answers("wc_Sha256Update") :
         /\ ret' = c
         /\ calls' = Append(calls, Call("wc_Sha256Update", c, SubSeq(testData, 1, TestDataLen)))
         /\ IF Failed(ret')
            THEN Goto("sha_init") /\ UNCHANGED <<stdoutBuf, log>>
            ELSE Goto("sha_final") /\ UNCHANGED <<stdoutBuf, log>>
    /\ UNCHANGED <<build, rerun, shaHeld, hung, hash, i, match>>

StartupCheck_Sha256Update ==
    /\ At("startup", "sha_update")
    /\ \E c \in Answers("wc_Sha256Update") :
         /\ ret' = c
         /\ calls' = Append(calls, Call("wc_Sha256Update", c, SubSeq(testData, 1, TestDataLen)))
         /\ IF Failed(ret')
            THEN PrintfReturn(<< LineD("SHA-256 update failed (error code: %d)", ret') >>, 1)
            ELSE Goto("sha_final") /\ UNCHANGED <<stdoutBuf, log>>
    /\ UNCHANGED <<build, rerun, shaHeld, hung, hash, i, match>>

StartupCheck_Sha256Final ==
    /\ At("startup", "sha_final")
    /\ \E c \in Answers("wc_Sha256Final") :
         /\ ret' = c
         /\ calls' = Append(calls, Call("wc_Sha256Final", c, << >>))
         /\ hash' \in FinalOutputs(c)
         /\ IF Failed(ret')
            THEN PrintfReturn(<< LineD("SHA-256 finalization failed (error code: %d)", ret') >>, 1)
            ELSE Goto("cmp_begin") /\ UNCHANGED <<stdoutBuf, log>>
    /\ UNCHANGED <<build, rerun, shaHeld, hung, i, match>>

StartupCheck_CompareBegin ==
    /\ At("startup", "cmp_begin")
    /\ match' = 1
    /\ i' = 0
    /\ Goto("cmp")
    /\ UNCHANGED <<build, rerun, shaHeld, hung, ret, hash, stdoutBuf, log, calls>>

\* hash[i] != expected[i]; C index k is position k + 1 of the sequence
BytesDiffer(h, e, k) == h[k + 1] # e[k + 1]

\* i < WC_SHA256_DIGEST_SIZE
LoopContinues_OneShort(k) == k < WC_SHA256_DIGEST_SIZE - 1

LoopContinues(k) == k < WC_SHA256_DIGEST_SIZE

StartupCheck_CompareStep ==
    /\ At("startup", "cmp")
    /\ LoopContinues(i)
    /\ IF BytesDiffer(hash, expected, i)
       THEN match' = 0 /\ i' = i /\ Goto("verdict")
       ELSE match' = match /\ i' = i + 1 /\ Goto("cmp")
    /\ UNCHANGED <<build, rerun, shaHeld, hung, ret, hash, stdoutBuf, log, calls>>

StartupCheck_CompareEnd ==
    /\ At("startup", "cmp")
    /\ ~LoopContinues(i)
    /\ Goto("verdict")
    /\ UNCHANGED <<build, rerun, shaHeld, hung, ret, hash, i, match, stdoutBuf, log, calls>>

StartupCheck_Verdict ==
    /\ At("startup", "verdict")
    /\ IF NoMatch(match)
       THEN PrintfReturn(<< Line("SHA-256 test vector mismatch"),
                            Line("Cryptographic operation produced incorrect result") >>, 1)
       ELSE Printf(<< Line("SHA-256 test vector: PASSED") >>) /\ Goto("passed")
    /\ UNCHANGED <<build, rerun, shaHeld, hung, ret, hash, i, match, calls>>

\* return 0 without the closing banner
StartupCheck_Passed_NoBanner ==
    /\ At("startup", "passed")
    /\ PrintfReturn(<< >>, 0)
    /\ UNCHANGED <<build, rerun, shaHeld, hung, ret, hash, i, match, calls>>

StartupCheck_Passed ==
    /\ At("startup", "passed")
    /\ PrintfReturn(<< Line("========================================"),
                       Line("FIPS VALIDATION PASSED"),
                       Line("========================================"),
                       Line("FIPS 140-3 compliant cryptography verified"),
                       Line("Container startup authorized") >>, 0)
    /\ UNCHANGED <<build, rerun, shaHeld, hung, ret, hash, i, match, calls>>

(* ============================ test-fips.c ============================ *)

\* if (ret != 0)
TestFailed_NegativeOnly(r) == r < 0

TestFailed(r) == r # 0


TestFips_Banner ==
    /\ At("test", "start")
    /\ Printf(<< Line("Testing wolfSSL FIPS installation...") >>)
    /\ Goto("flags")
    /\ UNCHANGED <<build, rerun, shaHeld, hung, ret, hash, i, match, calls>>

TestFips_Flags ==
    /\ At("test", "flags")
    /\ IF ~haveFips
       THEN Printf(<< Line("FIPS mode: DISABLED (WARNING!)") >>)
       ELSE IF haveFipsVersion
       THEN Printf(<< Line("FIPS mode: ENABLED"),
                      LineD("FIPS version: %d", fipsVersion) >>)
       ELSE Printf(<< Line("FIPS mode: ENABLED"),
                      Line("FIPS version: Enabled (version macro not available)") >>)
    /\ Goto("check2")
    /\ UNCHANGED <<build, rerun, shaHeld, hung, ret, hash, i, match, calls>>

TestFips_CastBegin ==
    /\ At("test", "check2")
    /\ Printf(<< Line("Running FIPS CAST (Known Answer Tests)...") >>)
    /\ Goto("setseed")
    /\ UNCHANGED <<build, rerun, shaHeld, hung, ret, hash, i, match, calls>>

TestFips_SetSeed ==
    /\ At("test", "setseed")
    /\ calls' = Append(calls, Call("wc_SetSeed_Cb", 0, << >>))
    /\ Goto("cast")
    /\ UNCHANGED <<build, rerun, shaHeld, hung, ret, hash, i, match, stdoutBuf, log>>

TestFips_RunAllCast ==
    /\ At("test", "cast")
    /\ \E c \in Answers("wc_RunAllCast_fips") :
         /\ ret' = c
         /\ calls' = Append(calls, Call("wc_RunAllCast_fips", c, << >>))
         /\ IF TestFailed(ret')
            THEN PrintfReturn(<< LineD("FIPS CAST failed: %d", ret') >>, 1)
            ELSE Printf(<< Line("FIPS CAST: PASSED") >>) /\ Goto("check3")
    /\ UNCHANGED <<build, rerun, shaHeld, hung, hash, i, match>>

TestFips_Sha256Begin ==
    /\ At("test", "check3")
    /\ Printf(<< Line("Running SHA256 test...") >>)
    /\ Goto("sha_init")
    /\ UNCHANGED <<build, rerun, shaHeld, hung, ret, hash, i, match, calls>>

TestFips_InitSha256 ==
    /\ At("test", "sha_init")
    /\ \E c \in Answers("wc_InitSha256") :
         /\ ret' = c
         /\ calls' = Append(calls, Call("wc_InitSha256", c, << >>))
         /\ shaHeld' \in ContextAfterInit(c)
         /\ IF TestFailed(ret')
            THEN PrintfReturn(<< LineD("SHA256 Init failed: %d", ret') >>, 1)
            ELSE Goto("sha_update") /\ UNCHANGED <<stdoutBuf, log>>
    /\ UNCHANGED <<build, rerun, hung, hash, i, match>>

TestFips_Sha256Update ==
    /\ At("test", "sha_update")
    /\ \E c \in Answers("wc_Sha256Update") :
         /\ ret' = c
         /\ calls' = Append(calls, Call("wc_Sha256Update", c, SubSeq(testData, 1, TestDataLen)))
         /\ IF TestFailed(ret')
            THEN PrintfReturn(<< LineD("SHA256 Update failed: %d", ret') >>, 1)
            ELSE Goto("sha_final") /\ UNCHANGED <<stdoutBuf, log>>
    /\ UNCHANGED <<build, rerun, shaHeld, hung, hash, i, match>>

TestFips_Sha256Final ==
    /\ At("test", "sha_final")
    /\ \E c \in Answers("wc_Sha256Final") :
         /\ ret' = c
         /\ calls' = Append(calls, Call("wc_Sha256Final", c, << >>))
         /\ hash' \in FinalOutputs(c)
         /\ IF TestFailed(ret')
            THEN PrintfReturn(<< LineD("SHA256 Final failed: %d", ret') >>, 1)
            ELSE Goto("report") /\ UNCHANGED <<stdoutBuf, log>>
    /\ UNCHANGED <<build, rerun, shaHeld, hung, i, match>>

\* prints the computed digest next to the expected text and returns 0
TestFips_Report ==
    /\ At("test", "report")
    /\ PrintfReturn(<< LineHex("SHA256('abc') = ", hash),
                       Line("Expected:       ba7816bf8f01cfea414140de5dae2223b00361a396177a9cb410ff61f20015ad"),
                       Line("wolfSSL FIPS test: ALL PASSED") >>, 0)
    /\ UNCHANGED <<build, rerun, shaHeld, hung, ret, hash, i, match, calls>>

(* ============================ the provider =========================== *)

CallSites == {"setseed", "cast", "sha_init", "sha_update", "sha_final"}

\* a blocking provider call that never returns; the process stays where it
\* is until it is killed from outside, and a killed process flushes nothing
Hang ==
    /\ ~hung
    /\ pc \in CallSites
    /\ hung' = TRUE
    /\ UNCHANGED <<build, rerun, shaHeld, pc, ret, hash, i, match, stdoutBuf, log, exitCode, calls>>

Next ==
    \/ StartupCheck_Banner
    \/ StartupCheck_Check1
    \/ StartupCheck_Check2Begin
    \/ StartupCheck_SetSeed
    \/ StartupCheck_RunAllCast
    \/ StartupCheck_Check3Begin
    \/ StartupCheck_InitSha256
    \/ StartupCheck_Sha256Update
    \/ StartupCheck_Sha256Final
    \/ StartupCheck_CompareBegin
    \/ StartupCheck_CompareStep
    \/ StartupCheck_CompareEnd
    \/ StartupCheck_Verdict
    \/ StartupCheck_Passed
    \/ TestFips_Banner
    \/ TestFips_Flags
    \/ TestFips_CastBegin
    \/ TestFips_SetSeed
    \/ TestFips_RunAllCast
    \/ TestFips_Sha256Begin
    \/ TestFips_InitSha256
    \/ TestFips_Sha256Update
    \/ TestFips_Sha256Final
    \/ TestFips_Report
    \/ Hang

Spec == Init /\ [][Next]_vars

\* the process is the only thread and main has no wait of its own: as long
\* as a statement can be executed, one is
FairSpec == Spec /\ WF_vars(Next)

(* ============================ a second run =========================== *)

\* the finished process is started again: same binary, same stdout, same
\* provider; the stack of the new process holds whatever it holds
Rerun ==
    /\ pc = "exited"
    /\ ~second
    /\ second' = TRUE
    /\ prev' = [exitCode |-> exitCode, report |-> log, calls |-> calls, hash |-> hash]
    /\ pc' = "start"
    /\ ret' \in Codes
    /\ hash' \in UninitHashes
    /\ i' = 0
    /\ match' = 1
    /\ stdoutBuf' = << >>
    /\ log' = << >>
    /\ exitCode' = 0
    /\ calls' = << >>
    /\ shaHeld' = FALSE
    /\ UNCHANGED <<build, hung>>

NextTwice == Next \/ Rerun

SpecTwice == Init /\ [][NextTwice]_vars

(* ====================== vocabulary of the claims ===================== *)

Exited == pc = "exited"

Idx(f) == { k \in 1..Len(calls) : calls[k].fn = f }

Returned0(f) == \E k \in Idx(f) : calls[k].ret = 0

DigestFns == {"wc_InitSha256", "wc_Sha256Update", "wc_Sha256Final"}

\* check 1 as the build flags decide it
Check1Passes == haveFips /\ (haveFipsVersion => fipsVersion >= 5)

\* the comparison loop has not run: its variables are as at entry of main
NotCompared == i = 0 /\ match = 1

\* the line with which each utility reports each kind of failure
FailureText(p, kind) ==
    IF p = "startup"
    THEN CASE kind = "FipsDisabled" -> "ERROR: FIPS mode is DISABLED"
           [] kind = "FipsVersionTooLow" -> "ERROR: FIPS version must be 5 or higher"
           [] kind = "CastFailure" -> "FIPS CAST FAILED (error code: %d)"
           [] kind = "DigestInitFailure" -> "SHA-256 initialization failed (error code: %d)"
           [] kind = "DigestUpdateFailure" -> "SHA-256 update failed (error code: %d)"
           [] kind = "DigestFinalizeFailure" -> "SHA-256 finalization failed (error code: %d)"
           [] kind = "DigestMismatch" -> "SHA-256 test vector mismatch"
    ELSE CASE kind = "CastFailure" -> "FIPS CAST failed: %d"
           [] kind = "DigestInitFailure" -> "SHA256 Init failed: %d"
           [] kind = "DigestUpdateFailure" -> "SHA256 Update failed: %d"
           [] kind = "DigestFinalizeFailure" -> "SHA256 Final failed: %d"
           [] OTHER -> "(none)"

Kinds == {"FipsDisabled", "FipsVersionTooLow", "CastFailure", "DigestInitFailure",
          "DigestUpdateFailure", "DigestFinalizeFailure", "DigestMismatch"}

KindOf(f) ==
    CASE f = "wc_RunAllCast_fips" -> "CastFailure"
      [] f = "wc_InitSha256" -> "DigestInitFailure"
      [] f = "wc_Sha256Update" -> "DigestUpdateFailure"
      [] f = "wc_Sha256Final" -> "DigestFinalizeFailure"
      [] OTHER -> "(none)"

\* the failures the visible report names, each with the code it carries
Reported ==
    { <<q[1], log[q[2]].arg>> :
        q \in { r \in Kinds \X (1..Len(log)) : log[r[2]].txt = FailureText(prog, r[1]) } }

PassText(n) ==
    CASE n = 1 -> "FIPS mode: ENABLED"
      [] n = 2 -> "FIPS CAST: PASSED"
      [] n = 3 -> "SHA-256 test vector: PASSED"

BeginText(n) ==
    CASE n = 1 -> "[1/3] Checking FIPS compile-time configuration..."
      [] n = 2 -> "[2/3] Running FIPS Known Answer Tests (CAST)..."
      [] n = 3 -> "[3/3] Validating SHA-256 cryptographic operation..."

(* ============================== claims ============================== *)

\* C1: fips-startup-check exits with 0 exactly when check 1 passed, the
\* self-test and the three digest calls each returned 0 and the 32 computed
\* bytes equal the expected constant; every other finished run exits with 1.
C1_ExitCodeContract ==
    (prog = "startup" /\ Exited) =>
        /\ exitCode \in {0, 1}
        /\ exitCode = 0 <=>
             /\ Check1Passes
             /\ Returned0("wc_RunAllCast_fips")
             /\ Returned0("wc_InitSha256")
             /\ Returned0("wc_Sha256Update")
             /\ Returned0("wc_Sha256Final")
             /\ \A p \in 1..32 : hash[p] = expected[p]

C1_Witness == prog = "startup" /\ Exited /\ exitCode = 0 /\ Len(calls) = 5

\* C2: with HAVE_FIPS undefined the validator stops at check 1: it reports
\* FipsDisabled and exits with 1, and no provider call (seed callback,
\* self-test, digest) is ever made.
C2_DisabledStopsAtCheck1 ==
    (prog = "startup" /\ ~haveFips) =>
        /\ calls = << >>
        /\ pc \in {"start", "check1", "exited"}
        /\ Exited =>
             /\ exitCode = 1
             /\ Reported = { <<"FipsDisabled", << >> >> }
             /\ BeginText(2) \notin Texts(Written)
             /\ BeginText(3) \notin Texts(Written)

C2_Witness == prog = "startup" /\ ~haveFips /\ haveFipsVersion /\ Exited

\* C3: with FIPS enabled and a version v present, check 1 fails with
\* FipsVersionTooLow (exit 1, nothing of check 2 or 3 run) exactly when
\* v < 5; for v >= 5, v = 5 included, check 1 passes and check 2 begins.
C3_VersionBoundary ==
    (prog = "startup" /\ haveFips /\ haveFipsVersion /\ pc \notin {"start", "check1"}) =>
        IF fipsVersion < 5
        THEN /\ Exited /\ exitCode = 1
             /\ calls = << >>
             /\ Reported = { <<"FipsVersionTooLow", << >> >> }
             /\ BeginText(2) \notin Texts(Written)
        ELSE /\ FailureText("startup", "FipsVersionTooLow") \notin Texts(Written)
             /\ PassText(1) \in Texts(Written)
             /\ pc = "check2" \/ BeginText(2) \in Texts(Written)

C3_Witness ==
    /\ prog = "startup" /\ haveFips /\ haveFipsVersion
    /\ fipsVersion = 5 /\ pc = "setseed"

\* C4: in both utilities, a self-test that returns c # 0 ends the run at
\* check 2: CastFailure is reported with exactly c, the exit code is 1, and
\* neither a digest call nor the byte comparison is made.
C4_CastFailureStops ==
    \A k \in Idx("wc_RunAllCast_fips") :
        calls[k].ret # 0 =>
            /\ Exited /\ exitCode = 1
            /\ k = Len(calls)
            /\ Reported = { <<"CastFailure", <<calls[k].ret>> >> }
            /\ \A f \in DigestFns : ~Called(f)
            /\ NotCompared

C4_Witness ==
    /\ prog = "test" /\ Exited
    /\ \E k \in Idx("wc_RunAllCast_fips") : calls[k].ret = 1

\* C5: a digest call (init, update, finalize) that returns c # 0 ends the
\* run at check 3: the failure kind of that call is reported with c, the exit
\* code is 1, no later digest call is made and the bytes are not compared.
C5_DigestCallFailureStops ==
    \A f \in DigestFns : \A k \in Idx(f) :
        calls[k].ret # 0 =>
            /\ Exited /\ exitCode = 1
            /\ k = Len(calls)
            /\ Reported = { <<KindOf(f), <<calls[k].ret>> >> }
            /\ NotCompared

C5_Witness ==
    /\ prog = "startup" /\ Exited
    /\ \E k \in Idx("wc_Sha256Update") : calls[k].ret = 0 - 1

\* C6: once the three digest calls succeeded, the digest check passes exactly
\* when the buffer equals the expected digest in all 32 positions; a
\* difference in any one position gives DigestMismatch and exit code 1 (the
\* loop that stops at the first difference decides as full equality does).
C6_FullEquality ==
    (prog = "startup" /\ Returned0("wc_Sha256Final")) =>
        /\ pc = "verdict" => (match = 1 <=> \A p \in 1..32 : hash[p] = expected[p])
        /\ pc \in {"passed", "exited"} =>
             IF \A p \in 1..32 : hash[p] = expected[p]
             THEN /\ pc = "exited" => exitCode = 0
                  /\ PassText(3) \in Texts(Written)
                  /\ Reported = {}
             ELSE /\ Exited /\ exitCode = 1
                  /\ Reported = { <<"DigestMismatch", << >> >> }
                  /\ PassText(3) \notin Texts(Written)

C6_Witness ==
    /\ prog = "startup" /\ Exited /\ Returned0("wc_Sha256Final")
    /\ hash[32] # expected[32]
    /\ \A p \in 1..31 : hash[p] = expected[p]

\* C7: either utility exits with 0 only when the library was built in FIPS
\* mode and the computed digest of "abc" was compared with the test vector
\* and equals it.
C7_SuccessOnlyIfFipsAndDigestChecked ==
    (Exited /\ exitCode = 0) =>
        /\ haveFips
        /\ Returned0("wc_Sha256Final")
        /\ \A p \in 1..32 : hash[p] = expected[p]

\* C8: in both utilities the seed callback is registered before the
\* self-test is invoked, and it is registered exactly once per process.
C8_SeedBeforeCast ==
    /\ Cardinality(Idx("wc_SetSeed_Cb")) <= 1
    /\ (pc = "cast" \/ Called("wc_RunAllCast_fips")) =>
         /\ Cardinality(Idx("wc_SetSeed_Cb")) = 1
         /\ \A k \in Idx("wc_RunAllCast_fips") : \E n \in Idx("wc_SetSeed_Cb") : n < k

C8_Witness == prog = "test" /\ Called("wc_RunAllCast_fips") /\ Len(calls) = 2

\* C9: the result of each check is visible in the output before the provider
\* call of the next check begins, so that when a later check hangs for ever
\* the results of all earlier checks are already in the log.
C9_EarlierResultsVisibleOnHang ==
    (prog = "startup" /\ hung) =>
        /\ pc \in {"setseed", "cast"} => PassText(1) \in Texts(log)
        /\ pc \in {"sha_init", "sha_update", "sha_final"} =>
             /\ PassText(1) \in Texts(log)
             /\ PassText(2) \in Texts(log)

\* the states of the validator's state machine, read off the position in main
Phase ==
    CASE pc \in {"start", "check1"} -> "Start"
      [] pc \in {"check2", "setseed", "cast"} -> "CompileTimeChecked"
      [] pc \in {"check3", "sha_init", "sha_update", "sha_final", "cmp_begin", "cmp"}
           -> "CastChecked"
      [] pc \in {"verdict", "passed"} -> "DigestChecked"
      [] pc = "exited" -> IF exitCode = 0 THEN "Authorized" ELSE "Rejected"

PhaseEdges ==
    { <<"Start", "CompileTimeChecked">>, <<"CompileTimeChecked", "CastChecked">>,
      <<"CastChecked", "DigestChecked">>, <<"DigestChecked", "Authorized">> }
    \cup { <<ph, "Rejected">> :
             ph \in {"Start", "CompileTimeChecked", "CastChecked", "DigestChecked"} }

\* what has been established in each state
PhaseMeaning ==
    /\ Phase \in {"CompileTimeChecked", "CastChecked", "DigestChecked", "Authorized"}
         => Check1Passes
    /\ Phase = "CompileTimeChecked" => ~Returned0("wc_RunAllCast_fips")
    /\ Phase \in {"CastChecked", "DigestChecked", "Authorized"}
         => Returned0("wc_RunAllCast_fips")
    /\ Phase \in {"Start", "CompileTimeChecked"} => \A f \in DigestFns : ~Called(f)
    /\ Phase \in {"DigestChecked", "Authorized"} => \A f \in DigestFns : Returned0(f)
    /\ Phase = "Authorized" => \A p \in 1..32 : hash[p] = expected[p]
    /\ Phase = "Rejected" =>
         /\ \A k \in 1..Len(calls) : calls[k].ret # 0 => k = Len(calls)
         /\ ~Check1Passes => calls = << >>
         /\ (\E k \in 1..Len(calls) : calls[k].ret # 0) => NotCompared

\* C10: the validator only moves forward through Start, CompileTimeChecked,
\* CastChecked, DigestChecked and then Authorized or Rejected: no cycle, no
\* skipped check, a failed check leads straight to Rejected with no later
\* check run, and Authorized is entered only after check 3 succeeded on top
\* of checks 1 and 2.
C10_StateMachine ==
    /\ [](prog = "startup" => PhaseMeaning)
    /\ [][prog = "startup" => (Phase' = Phase \/ <<Phase, Phase'>> \in PhaseEdges)]_vars

C10_Witness == prog = "startup" /\ Phase = "Authorized"

\* C11: a second run against an unchanged provider (same build flags, same
\* status of every call, same digest bytes) makes the same calls and ends
\* with the same exit code, the same report line for line (so the same
\* pass/fail result of every check) and the same digest; nothing else, the
\* uninitialised stack included, influences the outcome.
C11_Idempotent ==
    (second /\ Exited) =>
        /\ calls = prev.calls
        /\ exitCode = prev.exitCode
        /\ log = prev.report
        /\ Called("wc_Sha256Final") => hash = prev.hash

C11_Witness ==
    /\ second /\ Exited /\ prog = "startup"
    /\ Returned0("wc_Sha256Final") /\ exitCode = 1

RuleText == "========================================"

\* a banner is a title between two rule lines, as the header of the report is
FramedAt(s, k) ==
    /\ k >= 1 /\ k + 2 <= Len(s)
    /\ s[k].txt = RuleText /\ s[k + 2].txt = RuleText

\* titles of the banners in the closing lines of the report (the header
\* banner, lines 1 to 3, is not a closing banner)
ClosingBanners(s) ==
    { s[k + 1].txt : k \in { n \in 4..Len(s) : FramedAt(s, n) /\ n >= Len(s) - 4 } }

\* positions of the failure lines in the report
FailureLines(s) ==
    { k \in 1..Len(s) : \E d \in Kinds : s[k].txt = FailureText(prog, d) }

\* C12 as claimed: every finished run closes with a banner, the pass banner
\* in exactly the runs that exit 0 and a fail banner in the runs that exit 1.
C12_EveryRunEndsWithBanner ==
    (prog = "startup" /\ Exited) =>
        IF exitCode = 0
        THEN ClosingBanners(log) = {"FIPS VALIDATION PASSED"}
        ELSE /\ ClosingBanners(log) # {}
             /\ "FIPS VALIDATION PASSED" \notin ClosingBanners(log)

\* C12 as amended: the pass banner closes the report in exactly the runs that
\* exit 0; a run that exits 1 prints no banner and closes with the single
\* failure line of the failed check, followed by at most one line explaining it.
C12_PassBannerOnlyFailureLineOtherwise ==
    (prog = "startup" /\ Exited) =>
        /\ exitCode = 0 <=> ClosingBanners(log) = {"FIPS VALIDATION PASSED"}
        /\ exitCode = 0 => FailureLines(log) = {}
        /\ exitCode # 0 =>
             /\ ClosingBanners(log) = {}
             /\ "FIPS VALIDATION PASSED" \notin Texts(log)
             /\ Cardinality(FailureLines(log)) = 1
             /\ \A k \in FailureLines(log) : k >= Len(log) - 1

C12_Witness ==
    /\ prog = "startup" /\ Exited /\ exitCode = 1
    /\ Reported = { <<"DigestMismatch", << >> >> }

IsPassLine(l) == \E n \in 1..3 : l.txt = PassText(n)

\* the pass results of the report, in the order they were printed
PassResults(s) ==
    LET ps == SelectSeq(s, IsPassLine) IN [k \in 1..Len(ps) |-> ps[k].txt]

\* the nominal scenario: FIPS enabled, version 5, every provider call made so
\* far returned 0 and the digest, once computed, is the expected one
Nominal ==
    /\ prog = "startup"
    /\ haveFips /\ haveFipsVersion /\ fipsVersion = 5
    /\ \A k \in 1..Len(calls) : calls[k].ret = 0
    /\ Called("wc_Sha256Final") => \A p \in 1..32 : hash[p] = expected[p]

\* C13: the nominal run exits with 0 and its report holds exactly three pass
\* results, of check 1, check 2 and check 3 in this order, and no failure line.
C13_NominalScenario ==
    (Nominal /\ Exited) =>
        /\ exitCode = 0
        /\ PassResults(log) = << PassText(1), PassText(2), PassText(3) >>
        /\ FailureLines(log) = {}
        /\ LineD("FIPS version: %d", 5) \in { log[k] : k \in 1..Len(log) }

C13_Witness == Nominal /\ Exited /\ Len(calls) = 5 /\ ~lineBuffered

\* C14: with FIPS enabled and no version macro, check 1 does not fail: the
\* warning is printed, check 2 begins, and the exit code is 0 exactly when
\* checks 2 and 3 pass.
C14_MissingVersionIsWarning ==
    (prog = "startup" /\ haveFips /\ ~haveFipsVersion /\ pc \notin {"start", "check1"}) =>
        /\ "FIPS version macro not available" \in Texts(Written)
        /\ PassText(1) \in Texts(Written)
        /\ FailureText("startup", "FipsDisabled") \notin Texts(Written)
        /\ FailureText("startup", "FipsVersionTooLow") \notin Texts(Written)
        /\ pc = "check2" \/ BeginText(2) \in Texts(Written)
        /\ Exited =>
             /\ Called("wc_RunAllCast_fips")
             /\ exitCode = 0 <=>
                  /\ Returned0("wc_RunAllCast_fips")
                  /\ \A f \in DigestFns : Returned0(f)
                  /\ \A p \in 1..32 : hash[p] = expected[p]

C14_Witness ==
    /\ prog = "startup" /\ haveFips /\ ~haveFipsVersion
    /\ Exited /\ exitCode = 0

\* C15: when the provider's digest context needs explicit teardown, it has
\* been released on every exit path taken after wc_InitSha256 succeeded
\* (update failure, finalize failure, digest mismatch, success).
C15_ContextReleasedOnExit ==
    (Exited /\ Returned0("wc_InitSha256")) => ~shaHeld

\* C16: the digest calls are made in protocol order, each at most once:
\* wc_Sha256Update only right after wc_InitSha256 returned 0, wc_Sha256Final
\* only right after wc_Sha256Update returned 0; the update is given exactly
\* the 3 bytes "abc"; and the output buffer is read (compared, or printed by
\* test-fips) only after wc_Sha256Final returned 0.
C16_DigestProtocol ==
    /\ \A f \in DigestFns : Cardinality(Idx(f)) <= 1
    /\ \A k \in Idx("wc_InitSha256") : k > 1 /\ calls[k - 1].fn = "wc_RunAllCast_fips"
    /\ \A k \in Idx("wc_Sha256Update") :
         /\ k > 1
         /\ calls[k - 1].fn = "wc_InitSha256" /\ calls[k - 1].ret = 0
         /\ calls[k].arg = << 97, 98, 99 >>
    /\ \A k \in Idx("wc_Sha256Final") :
         /\ k > 1
         /\ calls[k - 1].fn = "wc_Sha256Update" /\ calls[k - 1].ret = 0
    /\ (pc \in {"cmp_begin", "cmp", "verdict", "passed", "report"} \/ ~NotCompared)
         => Returned0("wc_Sha256Final")

C16_Witness ==
    /\ prog = "startup" /\ pc = "cmp" /\ i = 7
    /\ Returned0("wc_Sha256Final")

\* C17: provided every provider call returns, every run terminates, with
\* exit code 0 (Authorized) or 1 (Rejected) and no other; no provider call
\* is made a second time (no retry, no recovery), and the comparison loop
\* advances its index at every iteration it does not leave, up to 32.
C17_Terminates ==
    /\ <>(hung \/ Exited)
    /\ [](Exited => exitCode \in {0, 1})
    /\ [](\A k \in 1..Len(calls) : Cardinality(Idx(calls[k].fn)) = 1)
    /\ [](i \in 0..32)
    /\ [][(pc = "cmp" /\ pc' = "cmp") => i' = i + 1]_vars
    /\ [][pc = "exited" => pc' = "exited"]_vars

C17_Witness == prog = "startup" /\ Exited /\ i = 32 /\ exitCode = 0

====
